---- MODULE Spec2Model ----
(***************************************************************************)
(* Model of dex-exfilimagestego (src/main.py): one run of main(), which    *)
(* validates the image path, acquires a payload, embeds it in the RGBA     *)
(* pixels of the cover image (embed_data) and optionally logs a simulated  *)
(* exfiltration.  A pixel is a 4-tuple <<r, g, b, a>> of values 0..255, an *)
(* image is a sequence of pixels in raster order, a payload a sequence of  *)
(* bytes.  Image.open/convert/getdata/putdata/save are the identity on     *)
(* RGBA pixel sequences (lossless PNG).  The output path is taken to be    *)
(* different from the image path (its default is "output.png").            *)
(***************************************************************************)
EXTENDS Integers, Sequences, FiniteSets, TLC

VARIABLES args, imageFile, dataFile, fakerOk, fakerByte,
          pc, data, frame, pixels, outputFile, raised, exitStatus, log

vars == <<args, imageFile, dataFile, fakerOk, fakerByte,
          pc, data, frame, pixels, outputFile, raised, exitStatus, log>>

\* ------------------------------------------------------------------ bounds
MaxPayloadLen == 2

\* ------------------------------------------------------- program constants
DefaultSize == 1024
PrefixLen == 4

\* ---------------------------------------------------------------- values
NoneVal == "None"
NoError == "NoError"
PngError == "ValueError: Input image must be a PNG file."
CapacityError == "ValueError: Data is too large to fit in the image."
ImageNotFound == "FileNotFoundError: Image not found"
DataNotFound == "FileNotFoundError: File not found"
FakerError == "Exception: Error generating fake data"
OverflowError == "OverflowError: int too big to convert"
FormatError == "FormatError"

\* ------------------------------------------------------ integer bit work
RECURSIVE BitAnd(_, _)
BitAnd(x, y) ==
    IF x = 0 \/ y = 0 THEN 0
    ELSE (x % 2) * (y % 2) + 2 * BitAnd(x \div 2, y \div 2)

RECURSIVE BitOr(_, _)
BitOr(x, y) ==
    IF x = 0 THEN y
    ELSE IF y = 0 THEN x
    ELSE (IF (x % 2) + (y % 2) > 0 THEN 1 ELSE 0) + 2 * BitOr(x \div 2, y \div 2)

\* bin(n)[2:] : the binary digits of n, most significant first, no padding
RECURSIVE Bin(_)
Bin(n) == IF n < 2 THEN <<n>> ELSE Append(Bin(n \div 2), n % 2)

\* str.zfill(width)
Zfill(s, width) ==
    IF Len(s) >= width THEN s
    ELSE [i \in 1..(width - Len(s)) |-> 0] \o s

\* Python slice s[lo:hi] of a digit string
Slice(s, lo, hi) == SubSeq(s, lo + 1, hi)

\* int(s, 2)
RECURSIVE IntBase2(_)
IntBase2(s) ==
    IF Len(s) = 0 THEN 0
    ELSE 2 * IntBase2(SubSeq(s, 1, Len(s) - 1)) + s[Len(s)]

\* data_len.to_bytes(4, 'big')
ToBytes4Big(n) ==
    << (n \div 16777216) % 256, (n \div 65536) % 256, (n \div 256) % 256, n % 256 >>

\* to_bytes raises OverflowError when the length needs more than 4 bytes
FitsIn4Bytes(n) == (n \div 65536) < 65536

\* --------------------------------------------------------------- encoder
\* The body of the `if data_index < len(data)` branch: one frame byte is
\* written into one pixel.
EmbedPixelAdd(pixel, byte) ==
    LET binary_data == Zfill(Bin(byte), 8)
    IN << BitAnd(pixel[1], 254) + IntBase2(Slice(binary_data, 0, 2)),
          BitAnd(pixel[2], 252) + IntBase2(Slice(binary_data, 2, 4)),
          BitAnd(pixel[3], 252) + IntBase2(Slice(binary_data, 4, 6)),
          BitAnd(pixel[4], 252) + IntBase2(Slice(binary_data, 6, 8)) >>

EmbedPixelWideMask(pixel, byte) ==
    LET binary_data == Zfill(Bin(byte), 8)
    IN << BitOr(BitAnd(pixel[1], 254), IntBase2(Slice(binary_data, 0, 2))),
          BitOr(BitAnd(pixel[2], 240), IntBase2(Slice(binary_data, 2, 4))),
          BitOr(BitAnd(pixel[3], 252), IntBase2(Slice(binary_data, 4, 6))),
          BitOr(BitAnd(pixel[4], 252), IntBase2(Slice(binary_data, 6, 8))) >>

EmbedPixel(pixel, byte) ==
    LET binary_data == Zfill(Bin(byte), 8)
    IN << BitOr(BitAnd(pixel[1], 254), IntBase2(Slice(binary_data, 0, 2))),
          BitOr(BitAnd(pixel[2], 252), IntBase2(Slice(binary_data, 2, 4))),
          BitOr(BitAnd(pixel[3], 252), IntBase2(Slice(binary_data, 4, 6))),
          BitOr(BitAnd(pixel[4], 252), IntBase2(Slice(binary_data, 6, 8))) >>

\* The loop `for i in range(len(pixels))`.  data_index starts at 0 and is
\* incremented in exactly the iterations where data_index < len(data), so in
\* iteration i it equals min(i, len(data)); the branch is taken iff
\* i < len(data) and then reads data[i].  (Indices here are 1-based.)
EmbedPixelsTruncating(pxs, bytes) ==
    [i \in 1..(IF Len(bytes) < Len(pxs) THEN Len(bytes) ELSE Len(pxs)) |->
        EmbedPixel(pxs[i], bytes[i])]

EmbedPixels(pxs, bytes) ==
    [i \in 1..Len(pxs) |->
        IF i - 1 < Len(bytes) THEN EmbedPixel(pxs[i], bytes[i]) ELSE pxs[i]]

\* data = data_len.to_bytes(4, 'big') + data
Frame(payload) == ToBytes4Big(Len(payload)) \o payload

\* if len(data) * 8 > len(pixels): raise ValueError(...)
TooLarge(bytes, pxs) == Len(bytes) * 8 > Len(pxs)

\* --------------------------------------------------------------- decoder
\* The decoder of the specification (section 4.2); the repository has none.
DecodeByte(pixel) ==
    (pixel[1] % 4) * 64 + (pixel[2] % 4) * 16 + (pixel[3] % 4) * 4 + (pixel[4] % 4)

\* The big-endian length L is kept as two 16-bit halves (hi, lo) so that no
\* value exceeds 31 bits; every grid of the model has fewer than 65536
\* pixels, so 4 + L > len(grid) iff hi > 0 or 4 + lo > len(grid).
DecodeOffByOne(grid) ==
    IF Len(grid) < 4 THEN [status |-> FormatError]
    ELSE LET hi == DecodeByte(grid[1]) * 256 + DecodeByte(grid[2])
             lo == DecodeByte(grid[3]) * 256 + DecodeByte(grid[4])
         IN IF hi > 0 \/ 4 + lo >= Len(grid) THEN [status |-> FormatError]
            ELSE [status |-> "ok",
                  payload |-> [i \in 1..lo |-> DecodeByte(grid[4 + i])]]

Decode(grid) ==
    IF Len(grid) < 4 THEN [status |-> FormatError]
    ELSE LET hi == DecodeByte(grid[1]) * 256 + DecodeByte(grid[2])
             lo == DecodeByte(grid[3]) * 256 + DecodeByte(grid[4])
         IN IF hi > 0 \/ 4 + lo > Len(grid) THEN [status |-> FormatError]
            ELSE [status |-> "ok",
                  payload |-> [i \in 1..lo |-> DecodeByte(grid[4 + i])]]

\* ------------------------------------------------------------ CLI helpers
\* str.lower() on the characters that occur in the model's paths
LowerChar(c) ==
    CASE c = "P" -> "p" [] c = "N" -> "n" [] c = "G" -> "g" [] OTHER -> c

Lower(s) == [i \in 1..Len(s) |-> LowerChar(s[i])]

\* str.endswith(suffix)
EndsWith(s, suffix) ==
    /\ Len(s) >= Len(suffix)
    /\ SubSeq(s, Len(s) - Len(suffix) + 1, Len(s)) = suffix

DotPng == << ".", "p", "n", "g" >>

\* Python truthiness of args.data_file (None and "" are falsy)
Truthy(s) == s # NoneVal /\ s # ""

\* The if / elif / else of main that picks the payload source
DataSourceFileFirst(a) ==
    IF Truthy(a.data_file) THEN "file"
    ELSE IF a.generate_data THEN "generate"
    ELSE "default"

DataSource(a) ==
    IF a.generate_data THEN "generate"
    ELSE IF Truthy(a.data_file) THEN "file"
    ELSE "default"

\* generate_fake_data(size): `while len(data) < size` then data[:size]; the
\* content is whatever Faker produces, here the byte b repeated.
GenerateFakeData(size, b) ==
    IF size <= 0 THEN << >> ELSE [i \in 1..size |-> b]

\* ----------------------------------------------------------------- inputs
ByteVals == {27, 108, 228}

Payloads == UNION { [1..l -> ByteVals] : l \in 0..MaxPayloadLen }

PixelVals == { <<252, 128, 4, 0>>, <<255, 255, 255, 255>>,
               <<2, 129, 254, 7>>, <<20, 64, 8, 1>> }

\* A cover image of n pixels: pixels 0..2 are head, pixel 3 is fourth and the
\* rest alternate between rest and head.
Grid(head, fourth, rest, n) ==
    [i \in 1..n |-> IF i <= 3 THEN head
                    ELSE IF i = 4 THEN fourth
                    ELSE IF i % 2 = 1 THEN rest ELSE head]

GridLens ==
    {0, 3} \cup { PrefixLen + l : l \in 0..MaxPayloadLen }
           \cup { 8 * (PrefixLen + l) - 1 : l \in 0..MaxPayloadLen }
           \cup { 8 * (PrefixLen + l) : l \in 0..MaxPayloadLen }

Grids ==
    { Grid(h, f, r, n) : h \in PixelVals, f \in PixelVals, r \in PixelVals, n \in GridLens }

Absent == [exists |-> FALSE, content |-> << >>]

File(c) == [exists |-> TRUE, content |-> c]

ImagePaths == { << "a", ".", "p", "n", "g" >>, << "a", ".", "P", "N", "G" >>,
                << "a", ".", "j", "p", "g" >>, << "p", "n", "g" >> }

\* State of the process before main() has run any statement
Fresh ==
    /\ pc = "validate"
    /\ data = << >>
    /\ frame = << >>
    /\ pixels = << >>
    /\ outputFile = Absent
    /\ raised = NoError
    /\ exitStatus = -1
    /\ log = << >>

\* Runs with a valid command line, any cover image and any payload file
InitCodec ==
    /\ args = [image_path |-> << "a", ".", "p", "n", "g" >>,
               generate_data |-> FALSE,
               data_file |-> "data.bin",
               data_size |-> DefaultSize,
               exfiltration_protocol |-> NoneVal]
    /\ imageFile \in { File(g) : g \in Grids }
    /\ dataFile \in { File(p) : p \in Payloads }
    /\ fakerOk = TRUE
    /\ fakerByte = 108
    /\ Fresh

\* Runs with any command line and file system, a few cover images
InitMain ==
    /\ args \in [image_path : ImagePaths,
                 generate_data : BOOLEAN,
                 data_file : {NoneVal, "", "data.bin"},
                 data_size : {-1, 0, 1, DefaultSize},
                 exfiltration_protocol : {NoneVal, "http", "dns"}]
    /\ imageFile \in {Absent}
          \cup { File(Grid(<<255, 255, 255, 255>>, <<2, 129, 254, 7>>, <<20, 64, 8, 1>>, n)) :
                   n \in {PrefixLen + 1, 8 * (PrefixLen + 1)} }
    /\ dataFile \in {Absent, File(<<228>>)}
    /\ fakerOk \in BOOLEAN
    /\ fakerByte = 108
    /\ Fresh

\* Runs on a cover image large enough for the default payload
InitLarge ==
    /\ args \in [image_path : { << "a", ".", "p", "n", "g" >> },
                 generate_data : BOOLEAN,
                 data_file : {NoneVal, "data.bin"},
                 data_size : {DefaultSize},
                 exfiltration_protocol : {NoneVal, "dns"}]
    /\ imageFile = File(Grid(<<255, 255, 255, 255>>, <<2, 129, 254, 7>>, <<20, 64, 8, 1>>,
                             8 * (PrefixLen + DefaultSize)))
    /\ dataFile = File(<<228>>)
    /\ fakerOk = TRUE
    /\ fakerByte = 108
    /\ Fresh

Init == InitCodec \/ InitMain \/ InitLarge

\* ---------------------------------------------------------------- actions
\* raise inside main's try block: control goes to `except Exception`
Raise(err) ==
    /\ raised' = err
    /\ pc' = "except"

\* main: if not args.image_path.lower().endswith(".png"): raise ValueError
ValidateImagePath ==
    /\ pc = "validate"
    /\ IF EndsWith(Lower(args.image_path), DotPng)
       THEN pc' = "source" /\ raised' = raised
       ELSE Raise(PngError)
    /\ UNCHANGED <<args, imageFile, dataFile, fakerOk, fakerByte,
                   data, frame, pixels, outputFile, exitStatus, log>>

\* main: if args.generate_data: data = generate_fake_data(args.data_size)
GenerateData ==
    /\ pc = "source"
    /\ DataSource(args) = "generate"
    /\ log' = Append(log, "generate")
    /\ IF fakerOk
       THEN /\ data' = GenerateFakeData(args.data_size, fakerByte)
            /\ pc' = "embed_open"
            /\ raised' = raised
       ELSE /\ Raise(FakerError)
            /\ data' = data
    /\ UNCHANGED <<args, imageFile, dataFile, fakerOk, fakerByte,
                   frame, pixels, outputFile, exitStatus>>

\* main: elif args.data_file: data = read_data_from_file(args.data_file)
ReadDataFile ==
    /\ pc = "source"
    /\ DataSource(args) = "file"
    /\ log' = Append(log, "file")
    /\ IF dataFile.exists
       THEN /\ data' = dataFile.content
            /\ pc' = "embed_open"
            /\ raised' = raised
       ELSE /\ Raise(DataNotFound)
            /\ data' = data
    /\ UNCHANGED <<args, imageFile, dataFile, fakerOk, fakerByte,
                   frame, pixels, outputFile, exitStatus>>

\* main: else: data = generate_fake_data(1024)
DefaultData ==
    /\ pc = "source"
    /\ DataSource(args) = "default"
    /\ log' = Append(log, "default")
    /\ IF fakerOk
       THEN /\ data' = GenerateFakeData(DefaultSize, fakerByte)
            /\ pc' = "embed_open"
            /\ raised' = raised
       ELSE /\ Raise(FakerError)
            /\ data' = data
    /\ UNCHANGED <<args, imageFile, dataFile, fakerOk, fakerByte,
                   frame, pixels, outputFile, exitStatus>>

\* embed_data: isfile check, Image.open, convert, length prefix, getdata
EmbedOpen ==
    /\ pc = "embed_open"
    /\ IF ~imageFile.exists
       THEN /\ Raise(ImageNotFound)
            /\ UNCHANGED <<frame, pixels>>
       ELSE IF ~FitsIn4Bytes(Len(data))
       THEN /\ Raise(OverflowError)
            /\ UNCHANGED <<frame, pixels>>
       ELSE /\ frame' = Frame(data)
            /\ pixels' = imageFile.content
            /\ pc' = "embed_check"
            /\ raised' = raised
    /\ UNCHANGED <<args, imageFile, dataFile, fakerOk, fakerByte,
                   data, outputFile, exitStatus, log>>

\* embed_data: the capacity check
EmbedCheckAfterWrite ==
    /\ pc = "embed_check"
    /\ IF TooLarge(frame, pixels)
       THEN /\ pixels' = EmbedPixels(pixels, frame)
            /\ Raise(CapacityError)
       ELSE /\ pc' = "embed_loop"
            /\ UNCHANGED <<raised, pixels>>
    /\ UNCHANGED <<args, imageFile, dataFile, fakerOk, fakerByte,
                   data, frame, outputFile, exitStatus, log>>

EmbedCheck ==
    /\ pc = "embed_check"
    /\ IF TooLarge(frame, pixels)
       THEN Raise(CapacityError)
       ELSE pc' = "embed_loop" /\ raised' = raised
    /\ UNCHANGED <<args, imageFile, dataFile, fakerOk, fakerByte,
                   data, frame, pixels, outputFile, exitStatus, log>>

\* embed_data: the pixel loop and img.putdata(pixels)
EmbedLoop ==
    /\ pc = "embed_loop"
    /\ pixels' = EmbedPixels(pixels, frame)
    /\ pc' = "embed_save"
    /\ UNCHANGED <<args, imageFile, dataFile, fakerOk, fakerByte,
                   data, frame, outputFile, raised, exitStatus, log>>

\* embed_data: img.save(output_path, "PNG") and return to main
EmbedSave ==
    /\ pc = "embed_save"
    /\ outputFile' = File(pixels)
    /\ log' = Append(log, "embedded")
    /\ pc' = "exfil"
    /\ UNCHANGED <<args, imageFile, dataFile, fakerOk, fakerByte,
                   data, frame, pixels, raised, exitStatus>>

\* main: if args.exfiltration_protocol: simulate_exfiltration(...); return
SimulateExfiltration ==
    /\ pc = "exfil"
    /\ log' = IF args.exfiltration_protocol # NoneVal
              THEN Append(log, "simulate_" \o args.exfiltration_protocol)
              ELSE log
    /\ pc' = "done"
    /\ exitStatus' = 0
    /\ UNCHANGED <<args, imageFile, dataFile, fakerOk, fakerByte,
                   data, frame, pixels, outputFile, raised>>

\* main: except Exception: logging.error(...); sys.exit(1)
ErrorExit ==
    /\ pc = "except"
    /\ exitStatus' = 1
    /\ pc' = "exited"
    /\ UNCHANGED <<args, imageFile, dataFile, fakerOk, fakerByte,
                   data, frame, pixels, outputFile, raised, log>>

Next ==
    \/ ValidateImagePath
    \/ GenerateData
    \/ ReadDataFile
    \/ DefaultData
    \/ EmbedOpen
    \/ EmbedCheck
    \/ EmbedLoop
    \/ EmbedSave
    \/ SimulateExfiltration
    \/ ErrorExit

Spec == Init /\ [][Next]_vars

\* ------------------------------------------------------------ properties
\* The cover image as read, the payload embedded and the image written
CoverGrid == imageFile.content

OutputGrid == outputFile.content

\* embed_data has returned normally
Embedded == pc \in {"exfil", "done"}

\* The 2-bit group k (0 = bits [7:6] ... 3 = bits [1:0]) of a byte
Group(byte, k) ==
    CASE k = 0 -> (byte \div 64) % 4
      [] k = 1 -> (byte \div 16) % 4
      [] k = 2 -> (byte \div 4) % 4
      [] OTHER -> byte % 4

\* C1: embedding succeeds if and only if 4 + L <= N: a run that passes the
\* capacity check has 4 + L <= N, and a run rejected with the capacity error
\* has 4 + L > N.
C1_CapacityBoundary ==
    /\ pc \in {"embed_loop", "embed_save", "exfil", "done"}
          => PrefixLen + Len(data) <= Len(CoverGrid)
    /\ raised = CapacityError
          => PrefixLen + Len(data) > Len(CoverGrid)

\* C2: round trip: decoding the image written by a successful embed of
\* payload p returns exactly p.
C2_RoundTrip ==
    Embedded => Decode(OutputGrid) = [status |-> "ok", payload |-> data]

\* C3: bit layout: after a successful embed, for every frame byte i the two
\* low bits of red, green, blue and alpha of output pixel i are bits [7:6],
\* [5:4], [3:2] and [1:0] of that byte.
C3_BitLayout ==
    Embedded =>
        \A i \in 1..Len(Frame(data)) : \A c \in 1..4 :
            OutputGrid[i][c] % 4 = Group(Frame(data)[i], c - 1)

\* C4: bit-locality: after a successful embed, for every pixel index below
\* 4 + len(p) and every channel, bits 7..2 of the output channel equal
\* bits 7..2 of the input channel.
C4_BitLocality ==
    Embedded =>
        \A i \in 1..(PrefixLen + Len(data)) : \A c \in 1..4 :
            OutputGrid[i][c] \div 4 = CoverGrid[i][c] \div 4

C4_Witness ==
    /\ Embedded
    /\ Len(data) > 0
    /\ \E i \in 1..(PrefixLen + Len(data)) : OutputGrid[i] # CoverGrid[i]
    /\ \E i \in 1..(PrefixLen + Len(data)) : CoverGrid[i][2] \div 4 # 0

\* C5: non-destructive tail: after a successful embed the output has as many
\* pixels as the input and every pixel at index >= 4 + len(p) is unchanged.
C5_TailUnchanged ==
    Embedded =>
        /\ Len(OutputGrid) = Len(CoverGrid)
        /\ \A i \in 1..Len(CoverGrid) :
               i > PrefixLen + Len(data) => OutputGrid[i] = CoverGrid[i]

C5_Witness ==
    /\ Embedded
    /\ Len(data) > 0
    /\ Len(CoverGrid) > PrefixLen + Len(data)
    /\ OutputGrid # CoverGrid

\* C6: a capacity failure is atomic and terminal: once the capacity error is
\* raised the pixel list is the one read from the cover image, no output
\* image has been written, the embed step is not recorded as done, the
\* payload source was read once, and the run is in the error exit (status 1).
C6_CapacityFailureAtomic ==
    raised = CapacityError =>
        /\ pixels = CoverGrid
        /\ outputFile = Absent
        /\ \A i \in 1..Len(log) : log[i] \in {"generate", "file", "default"}
        /\ Len(log) = 1
        /\ pc \in {"except", "exited"}
        /\ pc = "exited" => exitStatus = 1

C6_Witness ==
    /\ raised = CapacityError
    /\ pc = "exited"
    /\ Len(pixels) >= Len(frame)
    /\ EmbedPixels(pixels, frame) # pixels

\* C7: empty payload: for every grid of at least 4 pixels embedding the
\* empty payload is not rejected; the frame is four zero bytes, the two low
\* bits of every channel of pixels 0..3 become 00, pixels from index 4 on
\* are unchanged, and decoding the result returns the empty payload.
C7_EmptyPayload ==
    /\ (Len(data) = 0 /\ Len(CoverGrid) >= PrefixLen) => raised # CapacityError
    /\ (Embedded /\ Len(data) = 0) =>
          /\ frame = <<0, 0, 0, 0>>
          /\ \A i \in 1..PrefixLen : \A c \in 1..4 : OutputGrid[i][c] % 4 = 0
          /\ \A i \in 1..Len(CoverGrid) : i > PrefixLen => OutputGrid[i] = CoverGrid[i]
          /\ Decode(OutputGrid) = [status |-> "ok", payload |-> << >>]

\* The 32 low-order bits of the first four pixels, most significant first
LengthBits(grid) ==
    [k \in 1..32 |->
        LET px == grid[((k - 1) \div 8) + 1]
            ch == px[(((k - 1) % 8) \div 2) + 1]
        IN IF k % 2 = 1 THEN (ch \div 2) % 2 ELSE ch % 2]

\* The declared length exceeds what a grid of fewer than 65536 pixels holds
DeclaredTooLong(grid) ==
    \/ \E k \in 1..16 : LengthBits(grid)[k] = 1
    \/ PrefixLen + IntBase2(SubSeq(LengthBits(grid), 17, 32)) > Len(grid)

DecodeOutcome(grid) ==
    LET r == Decode(grid)
    IN /\ r.status \in {"ok", FormatError}
       /\ r.status = FormatError <=> (Len(grid) < PrefixLen \/ DeclaredTooLong(grid))
       /\ r.status = FormatError => DOMAIN r = {"status"}
       /\ r.status = "ok" =>
             /\ Len(r.payload) = IntBase2(SubSeq(LengthBits(grid), 17, 32))
             /\ \A i \in 1..Len(r.payload) : r.payload[i] \in 0..255

\* C8: decoder outcomes: for every grid, encoded or not, decode either fails
\* with FormatError or returns exactly L bytes, L being the big-endian length
\* in the low bits of the first 4 pixels; it fails exactly when the grid has
\* fewer than 4 pixels or 4 + L exceeds the grid, and then returns no payload.
C8_DecoderOutcomes ==
    /\ imageFile.exists => DecodeOutcome(CoverGrid)
    /\ DecodeOutcome(pixels)

C8_Witness ==
    /\ Embedded
    /\ Decode(CoverGrid).status = FormatError
    /\ Decode(pixels).status = "ok"
    /\ Len(Decode(pixels).payload) > 0

\* C9: deterministic and idempotent: the image written is the function
\* EmbedPixels of the cover image and the frame, and embedding the same
\* payload into the written image is accepted and yields that image again.
C9_Idempotent ==
    Embedded =>
        /\ OutputGrid = EmbedPixels(CoverGrid, Frame(data))
        /\ ~TooLarge(Frame(data), OutputGrid)
        /\ EmbedPixels(OutputGrid, Frame(data)) = OutputGrid

C9_Witness ==
    /\ Embedded
    /\ Len(data) > 0
    /\ \E i \in 1..Len(frame) : OutputGrid[i][1] # CoverGrid[i][1]
    /\ \E i \in 1..Len(frame) : CoverGrid[i][1] % 4 >= 2 /\ Group(frame[i], 0) >= 2

SourceEvents == {"generate", "file", "default"}

SimulateEvents == {"simulate_http", "simulate_dns"}

Positions(events) == { i \in 1..Len(log) : log[i] \in events }

\* C10: ordering of a run: a simulation step is preceded by the completed
\* embed step and happens only with a protocol selected; a run in which a
\* step failed has no simulation step and no saved output and exits with
\* status 1; at most one payload source is used, generate_data first, then
\* data_file, the default when neither is given.
C10_RunOrdering ==
    /\ \A i \in Positions(SimulateEvents) :
          /\ \E j \in 1..(i - 1) : log[j] = "embedded"
          /\ outputFile.exists
          /\ args.exfiltration_protocol # NoneVal
          /\ raised = NoError
    /\ raised # NoError =>
          /\ Positions(SimulateEvents) = {}
          /\ ~outputFile.exists
          /\ pc \in {"except", "exited"}
    /\ pc = "exited" <=> exitStatus = 1
    /\ pc = "done" <=> exitStatus = 0
    /\ pc \in {"done", "exited"} =>
          /\ ~EndsWith(Lower(args.image_path), DotPng) => exitStatus = 1
          /\ ~imageFile.exists => exitStatus = 1
          /\ (args.generate_data /\ ~fakerOk) => exitStatus = 1
          /\ (~args.generate_data /\ Truthy(args.data_file) /\ ~dataFile.exists)
                => exitStatus = 1
          /\ (~args.generate_data /\ ~Truthy(args.data_file) /\ ~fakerOk)
                => exitStatus = 1
          /\ Len(imageFile.content) < 8 * PrefixLen => exitStatus = 1
    /\ Cardinality(Positions(SourceEvents)) <= 1
    /\ \A i \in Positions(SourceEvents) :
          /\ args.generate_data => log[i] = "generate"
          /\ (~args.generate_data /\ Truthy(args.data_file)) => log[i] = "file"
          /\ (~args.generate_data /\ args.data_file = NoneVal) => log[i] = "default"
    /\ pc \in {"embed_open", "embed_check", "embed_loop", "embed_save", "exfil", "done"}
          => Cardinality(Positions(SourceEvents)) = 1

C10_Witness ==
    /\ pc = "done"
    /\ Positions(SimulateEvents) # {}
    /\ args.generate_data
    /\ Truthy(args.data_file)

====
